---- MODULE Spec2Model ----
(***************************************************************************)
(* Model of programs/compute_primes.c: the Sieve of Eratosthenes in        *)
(* compute_primes(int limit) and its caller.                               *)
(*                                                                         *)
(* The C type int is modelled as a two's complement integer of IntBits     *)
(* bits (the program's int has 32; the width is scaled down so that the    *)
(* bounds near INT_MAX are explored exhaustively; IntBits is chosen so     *)
(* that, as for 32 bits, the integer square root of INT_MAX is composite). *)
(* A signed overflow is undefined behaviour: the model lets the operation  *)
(* either wrap around or trap, and lets the inner loop's index i also be   *)
(* kept unwrapped in a wider register, as optimised builds do.  A write    *)
(* outside the allocated block either faults or lands in mapped memory     *)
(* next to the block and the run goes on; a fault ends the run in          *)
(* pc = "undefined".  A cell of the block returned by malloc holds an      *)
(* indeterminate value until written.                                      *)
(***************************************************************************)
EXTENDS Integers, Sequences, FiniteSets

VARIABLES
    limit,      \* argument of compute_primes (line 5), chosen by the caller
    pc,         \* position of the program
    is_prime,   \* the local pointer: "none" (not in scope), "NULL" or "blk"
    mem,        \* contents of the allocated block, index -> flag
    live,       \* TRUE between a successful malloc and free
    i,          \* loop variable of the loops at lines 11 and 17 (the register
                \* holding it: it may hold an unwrapped value after an overflow)
    p,          \* loop variable of the loop at line 15
    ret,        \* what the caller receives when the call returns
    stdout,     \* lines printed so far
    calls,      \* calls of compute_primes made by the caller
    overflowed, \* history: a signed overflow happened in the current call
    fault,      \* history: why the run became undefined
    rd,         \* history: indices read through is_prime in the current call
    wr,         \* history: indices written through is_prime in the current call
    nmalloc,    \* history: calls of malloc in the current call
    nfree,      \* history: calls of free in the current call
    out0,       \* history: Len(stdout) when the current call started
    first       \* history: the marking array at the end of the first call's pass

vars == <<limit, pc, is_prime, mem, live, i, p, ret, stdout, calls,
          overflowed, fault, rd, wr, nmalloc, nfree, out0, first>>

----------------------------------------------------------------------------
(* Bounds of the model *)

IntBits == 9

MaxLimit == 255

MaxCalls == 2

\* bytes of mapped memory on either side of the block that are not part of it
MaxSlack == 4

----------------------------------------------------------------------------
(* C integers *)

Pow2(n) == 2 ^ n

INT_MAX == Pow2(IntBits - 1) - 1

INT_MIN == 0 - Pow2(IntBits - 1)

Fits(x) == x >= INT_MIN /\ x <= INT_MAX

Wrap(x) == ((x - INT_MIN) % Pow2(IntBits)) + INT_MIN

\* The results a build can produce for an int expression whose exact value is x:
\* the value itself when it is representable, else the wrapped value or a trap.
IntResults(x) ==
    IF Fits(x)
    THEN {[trap |-> FALSE, val |-> x]}
    ELSE {[trap |-> FALSE, val |-> Wrap(x)], [trap |-> TRUE, val |-> 0]}

\* The results a build can produce for the update of the inner loop's index,
\* held in a register with value j, to the exact value x: those of IntResults
\* and, on overflow, the unwrapped value kept in a register wider than int;
\* once the register holds an unwrapped value it goes on unwrapped.
IndexResults(j, x) ==
    IF ~Fits(j)
    THEN {[trap |-> FALSE, val |-> x]}
    ELSE IF Fits(x)
    THEN IntResults(x)
    ELSE IntResults(x) \cup {[trap |-> FALSE, val |-> x]}

\* size_t has twice the width of int; conversion of an int is modulo 2^SizeBits.
SizeBits == 2 * IntBits

ToSizeT(x) == x % Pow2(SizeBits)

\* malloc rejects every request above PTRDIFF_MAX.
MallocMax == Pow2(SizeBits - 1) - 1

SizeofBool == 1

Indeterminate == "indeterminate"

Min(a, b) == IF a < b THEN a ELSE b

----------------------------------------------------------------------------
(* Ground truth: primality by trial division *)

Divides(d, n) == n % d = 0

IsPrime(n) == n >= 2 /\ \A d \in 2..(n - 1) : ~Divides(d, n)

----------------------------------------------------------------------------
(* Pieces of compute_primes *)

\* line 6: the byte count handed to malloc, for the int value n of limit + 1
AllocSize(n) == ToSizeT(ToSizeT(n) * SizeofBool)

\* faulty variant of InnerStart: the pass skips p*p and starts one step later
InnerStartSkipsSquare(q) == q * q + q

\* line 17: first index struck by the elimination pass for p
InnerStart(q) == q * q

\* faulty variant of InnerNext: the pass steps by 2*p
InnerNextDoubleStep(j, q) == j + 2 * q

\* line 17: next index struck after j in the elimination pass for q
InnerNext(j, q) == j + q

\* line 15: the candidate examined after q
NextP(q) == q + 1

\* line 12 and line 18: the flags written
CandidateFlag == "true"

EliminatedFlag == "false"

\* the value a read of a cell yields: either flag when the cell was never written
ReadFlag(c) == IF c = Indeterminate THEN {CandidateFlag, EliminatedFlag} ELSE {c}

\* an access to is_prime[idx] is defined
Valid(idx) == is_prime = "blk" /\ live /\ idx \in DOMAIN mem

\* idx is outside the block, in the mapped memory next to it
Stray(idx) ==
    /\ is_prime = "blk"
    /\ live
    /\ idx \notin DOMAIN mem
    /\ idx >= 0 - MaxSlack
    /\ idx <= Cardinality(DOMAIN mem) - 1 + MaxSlack

\* what a write to is_prime[idx] can do
WriteOutcomes(idx) ==
    IF Valid(idx) THEN {"stored"}
    ELSE IF Stray(idx) THEN {"stray", "fault"}
    ELSE {"fault"}

\* the block after a write of flag v to is_prime[idx] that did not fault
Stored(idx, v) == IF Valid(idx) THEN [mem EXCEPT ![idx] = v] ELSE mem

FaultOf(idx) ==
    IF is_prime # "blk" THEN "null"
    ELSE IF ~live THEN "use_after_free"
    ELSE "out_of_bounds"

Undefined(kind) ==
    /\ pc' = "undefined"
    /\ fault' = kind

----------------------------------------------------------------------------
(* Initial state: the caller is about to call compute_primes(limit) *)

Init ==
    /\ limit \in 0..Min(MaxLimit, INT_MAX)
    /\ pc = "idle"
    /\ is_prime = "none"
    /\ mem = << >>
    /\ live = FALSE
    /\ i = 0
    /\ p = 0
    /\ ret = "none"
    /\ stdout = << >>
    /\ calls = 0
    /\ overflowed = FALSE
    /\ fault = "none"
    /\ rd = {}
    /\ wr = {}
    /\ nmalloc = 0
    /\ nfree = 0
    /\ out0 = 0
    /\ first = << >>

----------------------------------------------------------------------------
(* The caller *)

\* line 32: compute_primes(limit); a later call passes the same limit
Call ==
    /\ pc \in {"idle", "returned"}
    /\ calls < MaxCalls
    /\ pc' = "malloc"
    /\ calls' = calls + 1
    /\ is_prime' = "none"
    /\ mem' = << >>
    /\ live' = FALSE
    /\ i' = 0
    /\ p' = 0
    /\ ret' = "none"
    /\ overflowed' = FALSE
    /\ rd' = {}
    /\ wr' = {}
    /\ nmalloc' = 0
    /\ nfree' = 0
    /\ out0' = Len(stdout)
    /\ UNCHANGED <<limit, stdout, fault, first>>

----------------------------------------------------------------------------
(* compute_primes *)

\* line 6: bool *is_prime = malloc((limit + 1) * sizeof(bool));
Malloc ==
    /\ pc = "malloc"
    /\ \E n \in IntResults(limit + 1) :
         IF n.trap
         THEN /\ Undefined("trap")
              /\ overflowed' = TRUE
              /\ UNCHANGED <<is_prime, mem, live, nmalloc>>
         ELSE /\ overflowed' = (overflowed \/ ~Fits(limit + 1))
              /\ nmalloc' = nmalloc + 1
              /\ fault' = fault
              /\ pc' = "check"
              /\ \E ok \in BOOLEAN :
                   IF ok /\ AllocSize(n.val) <= MallocMax
                   THEN /\ is_prime' = "blk"
                        /\ mem' = [k \in 0..(AllocSize(n.val) - 1) |-> Indeterminate]
                        /\ live' = TRUE
                   ELSE /\ is_prime' = "NULL"
                        /\ UNCHANGED <<mem, live>>
    /\ UNCHANGED <<limit, i, p, ret, stdout, calls, rd, wr, nfree, out0, first>>

\* faulty variant of CheckNull: the result of malloc is not tested
CheckNullMissing ==
    /\ pc = "check"
    /\ pc' = "init"
    /\ i' = 2
    /\ UNCHANGED <<limit, is_prime, mem, live, p, ret, stdout, calls,
                   overflowed, fault, rd, wr, nmalloc, nfree, out0, first>>

\* lines 7-9: if (is_prime == NULL) { return; }
CheckNull ==
    /\ pc = "check"
    /\ IF is_prime = "NULL"
       THEN /\ pc' = "returned"
            /\ ret' = "void"
            /\ i' = i
       ELSE /\ pc' = "init"
            /\ i' = 2
            /\ ret' = ret
    /\ UNCHANGED <<limit, is_prime, mem, live, p, stdout, calls, overflowed,
                   fault, rd, wr, nmalloc, nfree, out0, first>>

\* lines 11-13: one iteration of for (int i = 2; i <= limit; i++) is_prime[i] = true;
InitLoop ==
    /\ pc = "init"
    /\ IF i <= limit
       THEN /\ wr' = wr \cup {i}
            /\ \E w \in WriteOutcomes(i) :
                 IF w = "fault"
                 THEN /\ Undefined(FaultOf(i))
                      /\ UNCHANGED <<mem, i, p, overflowed>>
                 ELSE \E n \in IntResults(i + 1) :
                      IF n.trap
                      THEN /\ Undefined("trap")
                           /\ overflowed' = TRUE
                           /\ mem' = Stored(i, CandidateFlag)
                           /\ UNCHANGED <<i, p>>
                      ELSE /\ mem' = Stored(i, CandidateFlag)
                           /\ i' = n.val
                           /\ overflowed' = (overflowed \/ ~Fits(i + 1))
                           /\ UNCHANGED <<pc, fault, p>>
       ELSE /\ pc' = "outer"
            /\ p' = 2
            /\ UNCHANGED <<mem, i, wr, overflowed, fault>>
    /\ UNCHANGED <<limit, is_prime, live, ret, stdout, calls, rd, nmalloc,
                   nfree, out0, first>>

\* line 15: the test p * p <= limit
OuterTest ==
    /\ pc = "outer"
    /\ \E sq \in IntResults(p * p) :
         IF sq.trap
         THEN /\ Undefined("trap")
              /\ overflowed' = TRUE
         ELSE /\ overflowed' = (overflowed \/ ~Fits(p * p))
              /\ fault' = fault
              /\ pc' = IF sq.val <= limit THEN "body" ELSE "free"
    /\ UNCHANGED <<limit, is_prime, mem, live, i, p, ret, stdout, calls, rd,
                   wr, nmalloc, nfree, out0, first>>

\* lines 16-17: if (is_prime[p]) { for (int i = p * p; ...
OuterBody ==
    /\ pc = "body"
    /\ rd' = rd \cup {p}
    /\ IF Valid(p)
       THEN \E flag \in ReadFlag(mem[p]) :
              IF flag = CandidateFlag
              THEN \E s \in IntResults(InnerStart(p)) :
                     IF s.trap
                     THEN /\ Undefined("trap")
                          /\ overflowed' = TRUE
                          /\ i' = i
                     ELSE /\ overflowed' = (overflowed \/ ~Fits(InnerStart(p)))
                          /\ i' = s.val
                          /\ pc' = "inner"
                          /\ fault' = fault
              ELSE /\ pc' = "incr"
                   /\ UNCHANGED <<i, overflowed, fault>>
       ELSE /\ Undefined(FaultOf(p))
            /\ UNCHANGED <<i, overflowed>>
    /\ UNCHANGED <<limit, is_prime, mem, live, p, ret, stdout, calls, wr,
                   nmalloc, nfree, out0, first>>

\* lines 17-19: one iteration of for (...; i <= limit; i += p) is_prime[i] = false;
\* the test compares the int value of i, the write uses the register as index
InnerLoop ==
    /\ pc = "inner"
    /\ IF Wrap(i) <= limit
       THEN /\ wr' = wr \cup {i}
            /\ \E w \in WriteOutcomes(i) :
                 IF w = "fault"
                 THEN /\ Undefined(FaultOf(i))
                      /\ UNCHANGED <<mem, i, overflowed>>
                 ELSE \E n \in IndexResults(i, InnerNext(i, p)) :
                      IF n.trap
                      THEN /\ Undefined("trap")
                           /\ overflowed' = TRUE
                           /\ mem' = Stored(i, EliminatedFlag)
                           /\ i' = i
                      ELSE /\ mem' = Stored(i, EliminatedFlag)
                           /\ i' = n.val
                           /\ overflowed' = (overflowed \/ ~Fits(InnerNext(i, p)))
                           /\ UNCHANGED <<pc, fault>>
       ELSE /\ pc' = "incr"
            /\ UNCHANGED <<mem, i, wr, overflowed, fault>>
    /\ UNCHANGED <<limit, is_prime, live, p, ret, stdout, calls, rd, nmalloc,
                   nfree, out0, first>>

\* line 15: p++
OuterIncr ==
    /\ pc = "incr"
    /\ \E n \in IntResults(NextP(p)) :
         IF n.trap
         THEN /\ Undefined("trap")
              /\ overflowed' = TRUE
              /\ p' = p
         ELSE /\ p' = n.val
              /\ overflowed' = (overflowed \/ ~Fits(NextP(p)))
              /\ pc' = "outer"
              /\ fault' = fault
    /\ UNCHANGED <<limit, is_prime, mem, live, i, ret, stdout, calls, rd, wr,
                   nmalloc, nfree, out0, first>>

\* line 23: free(is_prime);
Free ==
    /\ pc = "free"
    /\ pc' = "print"
    /\ live' = FALSE
    /\ nfree' = nfree + 1
    /\ first' = IF calls = 1 THEN mem ELSE first
    /\ UNCHANGED <<limit, is_prime, mem, i, p, ret, stdout, calls, overflowed,
                   fault, rd, wr, nmalloc, out0>>

\* line 24: printf("End Program\n");
PrintEnd ==
    /\ pc = "print"
    /\ pc' = "exit"
    /\ stdout' = Append(stdout, "End Program")
    /\ UNCHANGED <<limit, is_prime, mem, live, i, p, ret, calls, overflowed,
                   fault, rd, wr, nmalloc, nfree, out0, first>>

\* line 26: the end of the function body
Return ==
    /\ pc = "exit"
    /\ pc' = "returned"
    /\ ret' = "void"
    /\ UNCHANGED <<limit, is_prime, mem, live, i, p, stdout, calls, overflowed,
                   fault, rd, wr, nmalloc, nfree, out0, first>>

Next ==
    \/ Call
    \/ Malloc
    \/ CheckNull
    \/ InitLoop
    \/ OuterTest
    \/ OuterBody
    \/ InnerLoop
    \/ OuterIncr
    \/ Free
    \/ PrintEnd
    \/ Return

Spec == Init /\ [][Next]_vars

\* The program is sequential and runs without suspension: an enabled step is taken.
FairSpec == Spec /\ WF_vars(Next)

TypeOK ==
    /\ limit \in 0..INT_MAX
    /\ pc \in {"idle", "malloc", "check", "init", "outer", "body", "inner",
               "incr", "free", "print", "exit", "returned", "undefined"}
    /\ is_prime \in {"none", "NULL", "blk"}
    /\ live \in BOOLEAN
    /\ i \in INT_MIN..(2 * INT_MAX + MaxSlack + 1)
    /\ p \in INT_MIN..INT_MAX
    /\ calls \in 0..MaxCalls

----------------------------------------------------------------------------
(* Vocabulary of the claims *)

Candidate(c) == c = CandidateFlag

Eliminated(c) == c = EliminatedFlag

\* the computation got its marking array in the current call
Allocated == is_prime = "blk"

\* the allocation of the current call failed
AllocFailed == is_prime = "NULL"

\* the elimination pass of the current call has finished
PassDone == pc = "free"

\* positions of the elimination pass (lines 15-21)
InPass == pc \in {"outer", "body", "inner", "incr", "free"}

Composite(c) == c >= 2 /\ ~IsPrime(c)

----------------------------------------------------------------------------
\* C1: for every bound N >= 2, when the elimination pass has finished, index i
\* (2 <= i <= N) is still a candidate if and only if i is prime by trial division.
C1_SieveExact ==
    (PassDone /\ limit >= 2) =>
        \A k \in 2..limit : Candidate(mem[k]) <=> IsPrime(k)

\* C1 witness: a pass has finished for a bound where several primes struck
\* composites (9, 25 and 49 are struck by 3, 5 and 7 only).
C1_Witness ==
    /\ PassDone
    /\ limit >= 49
    /\ Eliminated(mem[9])
    /\ Eliminated(mem[25])
    /\ Eliminated(mem[49])
    /\ Candidate(mem[47])

----------------------------------------------------------------------------
\* C2: indices 0 and 1 (those that exist) are eliminated from initialization
\* onward, and for N < 2 no index of 0..N can be read as a candidate.
C2_ZeroOneEliminated ==
    (Allocated /\ InPass) =>
        /\ \A k \in 0..Min(1, limit) : Eliminated(mem[k])
        /\ limit < 2 => {k \in 0..limit : CandidateFlag \in ReadFlag(mem[k])} = {}

----------------------------------------------------------------------------
\* what the function hands back to its caller at line 26, after a computation
SuccessReturn == "void"

\* C3: after a failed allocation the caller receives something other than what
\* it receives after a successful computation.
C3_FailureReported ==
    (pc = "returned" /\ AllocFailed) => ret # SuccessReturn

----------------------------------------------------------------------------
\* C4: after a failed allocation the function only tests the pointer and
\* returns: no index is read or written, no loop is entered, nothing is
\* released, malloc is not called again and nothing is printed.
C4_NoWorkAfterFailure ==
    AllocFailed =>
        /\ pc \in {"check", "returned"}
        /\ rd = {}
        /\ wr = {}
        /\ nfree = 0
        /\ nmalloc = 1
        /\ Len(stdout) = out0
        /\ fault = "none"

\* C4 witness: a call for a bound with work to do returned after its
\* allocation failed.
C4_Witness ==
    /\ pc = "returned"
    /\ AllocFailed
    /\ limit >= 4
    /\ ~overflowed

----------------------------------------------------------------------------
\* C5: no arithmetic step of compute_primes overflows, for any bound the
\* function processes.
C5_NoOverflow == ~overflowed

----------------------------------------------------------------------------
\* two flags are known to be the same: both are determinate and equal
SameFlag(a, b) == a # Indeterminate /\ b # Indeterminate /\ a = b

\* C6: the second call with the same bound ends its pass with a marking
\* array identical, at every index 0..N, to the one of the first call.
C6_SecondCallIdentical ==
    (PassDone /\ calls = 2 /\ first # << >>) =>
        \A k \in 0..limit : SameFlag(mem[k], first[k])

----------------------------------------------------------------------------
\* C7: when the outer loop is at p (line 15-16), every composite c <= N with a
\* prime factor smaller than p is already eliminated; in particular, when p is
\* a candidate, every multiple k*p with 2 <= k < p is.
C7_SmallerMultiplesStruck ==
    (pc \in {"outer", "body"} /\ Allocated) =>
        /\ \A c \in 2..limit :
             (Composite(c) /\ \E f \in 2..(p - 1) : IsPrime(f) /\ Divides(f, c))
                 => Eliminated(mem[c])
        /\ (pc = "body" /\ Candidate(mem[p])) =>
             \A k \in 2..(p - 1) : k * p <= limit => Eliminated(mem[k * p])

\* C7 witness: the pass for the candidate 5 is about to begin and its
\* multiples 10, 15 and 20 are already struck.
C7_Witness ==
    /\ pc = "body"
    /\ limit >= 25
    /\ p = 5
    /\ Candidate(mem[5])
    /\ Eliminated(mem[10])
    /\ Eliminated(mem[15])
    /\ Eliminated(mem[20])
    /\ Candidate(mem[25])

----------------------------------------------------------------------------
\* C8, state part: during the elimination pass no prime index is eliminated,
\* and for N = 2 and N = 3 the body of the outer loop is never entered.
C8_PrimesKept ==
    /\ (InPass /\ Allocated) =>
          \A k \in 2..limit : IsPrime(k) => Candidate(mem[k])
    /\ limit \in {2, 3} => pc \notin {"body", "inner", "incr"}

\* C8, step part: within the pass an eliminated index stays eliminated; the
\* inner loop runs only while p is a candidate; every write it performs, whether
\* or not it lands in the block, is at an index i = p*p + k*p <= N and stores
\* "eliminated"; and p advances by exactly 1.
C8_Step ==
    InPass =>
        /\ \A k \in DOMAIN mem : Eliminated(mem[k]) => Eliminated(mem'[k])
        /\ (pc = "inner" /\ Wrap(i) <= limit) =>
             /\ Candidate(mem[p])
             /\ i <= limit
             /\ i >= p * p
             /\ Divides(p, i)
        /\ mem' # mem =>
             /\ pc = "inner"
             /\ \A k \in DOMAIN mem :
                  mem'[k] # mem[k] => (k = i /\ Eliminated(mem'[k]))
        /\ p' # p => (pc = "incr" /\ p' = p + 1)
        /\ pc = "incr" => (pc' = "outer" /\ p' = p + 1)

\* C8: in every state of the elimination pass no prime is eliminated and no
\* elimination is undone; the inner loop writes only at multiples of a live
\* candidate p from p*p up to N; the outer loop advances p by 1.
C8_EliminationSafe == [](C8_PrimesKept) /\ [][C8_Step]_vars

----------------
\* C9: every call whose allocation succeeded eventually returns, having
\* released the array once and printed the completion marker once.
C9_Terminates ==
    (pc = "init" /\ Allocated) ~>
        (pc = "returned" /\ nfree = 1 /\ Len(stdout) = out0 + 1)

----------------------------------------------------------------------------
\* C10: every index read or written lies in 0..N, every cell read was written
\* before, no access faults, and on the success path the array is released
\* exactly once, after the last access.
C10_AccessesInRange ==
    /\ (rd \cup wr) \subseteq 0..limit
    /\ fault \notin {"null", "out_of_bounds", "use_after_free"}
    /\ (pc = "body" /\ Allocated) => mem[p] # Indeterminate
    /\ nfree <= 1
    /\ pc \in {"print", "exit"} => nfree = 1

====
